---- MODULE Spec2Model ----
(***************************************************************************)
(* Appointment booking core of api_express_mysql_produccion:               *)
(* CitasController (latest revision, src/unnamed/part_001 lines 360-924)   *)
(* over the `citas` table reached through db.query (src/db.js), and       *)
(* AuthController.register (src/unnamed/part_000) over `usuarios`.         *)
(*                                                                         *)
(* Times are minutes of one fixed day.  An instant is a UTC minute; the    *)
(* DATETIME column holds a wall-clock minute with no zone.                 *)
(***************************************************************************)
EXTENDS Integers, FiniteSets, Sequences, TLC

\* ------------------------------------------------------------------ bounds

\* Rows the AUTO_INCREMENT key may hand out in one run.
MaxCitas == 2

\* Rows of the table a direct call of _hasOverlap is tried against.
MaxRows == 2

\* Rows the usuarios table may grow to through registration.
MaxUsers == 3

\* ------------------------------------------------------- values and inputs

\* SQL NULL / JS null (a falsy id).
NULL == 0
\* JS undefined: a body field that the request does not carry.
UNDEF == -1

\* changeStatus: const allowed = [...]
allowed == {"pendiente", "confirmada", "completada", "cancelada"}

\* Request handlers that may be in flight at once (each awaits its queries).
Reqs == {1, 2}

\* ids a request may address: those the table holds, held or will hold
Ids == 1 .. MaxCitas

\* mascotas table, held fixed: pets 1 and 2 belong to owner 1, pet 3 to
\* owner 2; pet 4 does not exist.
Mascotas == {1, 2, 3}
owner_id(m) == IF m = 3 THEN 2 ELSE 1
MascotaInputs == {1, 2, 3, 4}
PropietarioInputs == {1, 2}

\* usuarios table, held fixed: user 1 has role admin (a veterinarian),
\* user 2 has role user; user 3 does not exist.
Usuarios == {1, 2}
usuarioRole(u) == IF u = 1 THEN "admin" ELSE "user"
\* ... as rows; the e-mail address of user u is written u
usuariosTable == [u \in Usuarios |-> [email |-> u, role |-> usuarioRole(u)]]
VetInputs == {1, 2, 3}

\* req.user as authenticateToken leaves it: role and userId of the token.
Actors == { [role |-> "admin", userId |-> 1],
            [role |-> "propietario", userId |-> 1],
            [role |-> "propietario", userId |-> 2],
            [role |-> "user", userId |-> 2] }

\* start instants a request may carry: 10:00, 10:35, 10:40
Starts == {600, 635, 640}
\* ... in the booking runs: 10:00 and 10:40, one buffered slot apart
BookingStarts == {600, 640}
\* duracion_min a request may carry
Durs == {30}
\* buffer_min a request may carry
Buffers == {10}
\* estado a body may carry besides the four labels; "" stands for none
EstadoInputs == allowed \cup {"", "archivada"}

\* Offsets (minutes east of UTC) of the server's local time zone.
TzOffsets == {0, 60}

VARIABLES
    citas,     \* the citas table: id -> row, for the ids that exist
    nextId,    \* the table's AUTO_INCREMENT counter
    tz,        \* the server's zone offset, fixed for a run
    req,       \* per handler: where it is, what it holds between awaits,
               \* and, once it has answered, the response it sent
    ov,        \* a direct call of a helper (_hasOverlap, getDurationForTipo,
               \* getWindowsForTipo): its arguments, then its result
    usuarios   \* the usuarios table: id -> row; only registration adds to it

vars == <<citas, nextId, tz, req, ov, usuarios>>

\* ---------------------------------------------------------------- helpers

\* parseDate: null for a missing value, else the instant
parseDate(val) == IF val = UNDEF THEN NULL ELSE val

\* fecha.toISOString().slice(0,19).replace('T',' '): the UTC wall clock
toISOString(fecha) == fecha

\* formatDateToSQL: getHours()/getMinutes() read the server's local clock
formatDateToSQL(fecha) == fecha + tz

\* new Date(existing.fecha_inicio): a DATETIME read back as local time
dateFromRow(stored) == stored - tz

\* overlapRowMatches with the buffer left off the stored appointment's end
overlapRowMatchesNoBuffer(c, veterinario_id, fecha_inicio, duracion_min, excludeId, bufferMin, t) ==
    /\ t[c].veterinario_id = veterinario_id
    /\ fecha_inicio < t[c].fecha_inicio + t[c].duracion_min
    /\ t[c].fecha_inicio < fecha_inicio + duracion_min + bufferMin
    /\ (excludeId # NULL => c # excludeId)

\* overlapRowMatches without the `AND c.id != ?` clause
overlapRowMatchesNoExclude(c, veterinario_id, fecha_inicio, duracion_min, excludeId, bufferMin, t) ==
    /\ t[c].veterinario_id = veterinario_id
    /\ fecha_inicio < t[c].fecha_inicio + t[c].duracion_min + bufferMin
    /\ t[c].fecha_inicio < fecha_inicio + duracion_min + bufferMin

\* The WHERE clause of _hasOverlap for one row c of table t.
overlapRowMatches(c, veterinario_id, fecha_inicio, duracion_min, excludeId, bufferMin, t) ==
    /\ t[c].veterinario_id = veterinario_id
    /\ fecha_inicio < t[c].fecha_inicio + t[c].duracion_min + bufferMin
    /\ t[c].fecha_inicio < fecha_inicio + duracion_min + bufferMin
    /\ (excludeId # NULL => c # excludeId)

\* _hasOverlap(veterinario_id, fecha_inicio, duracion_min, excludeId, bufferMin)
\* against table t
hasOverlap(t, veterinario_id, fecha_inicio, duracion_min, excludeId, bufferMin) ==
    IF veterinario_id = NULL THEN FALSE
    ELSE \E c \in DOMAIN t :
            overlapRowMatches(c, veterinario_id, fecha_inicio, duracion_min,
                              excludeId, bufferMin, t)

Idle == [pc |-> "idle"]
NoCall == [pc |-> "off"]

\* res.status(code).json(...): the handler has answered
Respond(op, id, code) == [pc |-> "done", op |-> op, id |-> id, code |-> code]

\* res.status(code).json({ success: false, message }): a refusal and its text
Fail(op, id, code, message) ==
    [pc |-> "done", op |-> op, id |-> id, code |-> code, message |-> message]

\* a handler slot that has no request in flight
Free(r) == req[r].pc \in {"idle", "done"}

\* Handlers are interchangeable: a request that arrives is given the first
\* slot with no request in flight.
Takes(r) == Free(r) /\ \A q \in Reqs : q < r => ~Free(q)

\* ------------------------------------------------------------------- Init

Init ==
    /\ citas = << >>
    /\ nextId = 1
    /\ tz \in TzOffsets
    /\ req = [r \in Reqs |-> Idle]
    /\ ov = NoCall
    /\ usuarios = usuariosTable

\* creates that passed their checks and have not inserted yet
pendingInserts == Cardinality({r \in Reqs : req[r].pc = "insert"})

\* ----------------------------------------------------------------- create

\* CreateCheck with the overlap query run ahead of the validation chain
CreateCheckOverlapFirst(r, user, mascota_id, propietario_id, veterinario_id, tipo_consulta, motivo, fecha_inicio, duracion_min, buffer_min) ==
    /\ Takes(r)
    /\ nextId + pendingInserts <= MaxCitas
    /\ LET vetIdToUse == IF veterinario_id \in {UNDEF, NULL} THEN NULL ELSE veterinario_id
           fecha == parseDate(fecha_inicio)
           durMin == IF duracion_min = UNDEF THEN 30 ELSE duracion_min
           bufferMin == IF buffer_min = UNDEF THEN 10 ELSE buffer_min
           refusal ==
             IF durMin > 0 /\ hasOverlap(citas, vetIdToUse, toISOString(fecha), durMin, NULL, bufferMin)
               THEN <<409, "Conflicto: el veterinario tiene otra cita en ese horario (considerando buffer)">>
             ELSE IF mascota_id \in {UNDEF, NULL} \/ propietario_id \in {UNDEF, NULL} \/ fecha_inicio = UNDEF
               THEN <<400, "mascota_id, propietario_id y fecha_inicio son requeridos">>
             ELSE IF mascota_id \notin Mascotas
               THEN <<400, "Mascota no existe">>
             ELSE IF owner_id(mascota_id) # propietario_id
               THEN <<400, "La mascota no pertenece al propietario indicado">>
             ELSE IF user.role = "propietario" /\ user.userId # propietario_id
               THEN <<403, "No autorizado para crear cita para otro propietario">>
             ELSE IF vetIdToUse # NULL /\ vetIdToUse \notin Usuarios
               THEN <<400, "Veterinario no encontrado">>
             ELSE IF vetIdToUse # NULL /\ usuarioRole(vetIdToUse) # "admin"
               THEN <<400, "El usuario seleccionado no es un veterinario (role admin)">>
             ELSE IF fecha = NULL
               THEN <<400, "fecha_inicio invalida">>
             ELSE IF durMin <= 0
               THEN <<400, "duracion_min invalida">>
             ELSE IF hasOverlap(citas, vetIdToUse, toISOString(fecha), durMin, NULL, bufferMin)
               THEN <<409, "Conflicto: el veterinario tiene otra cita en ese horario (considerando buffer)">>
             ELSE <<0, "">>
       IN IF refusal[1] # 0
          THEN req' = [req EXCEPT ![r] = Fail("create", NULL, refusal[1], refusal[2])]
          ELSE req' = [req EXCEPT ![r] =
                            [pc |-> "insert", op |-> "create", id |-> NULL,
                             mascota_id |-> mascota_id, propietario_id |-> propietario_id,
                             vet |-> vetIdToUse, tipo_consulta |-> tipo_consulta,
                             motivo |-> motivo, fecha |-> fecha, durMin |-> durMin,
                             bufferMin |-> bufferMin, estado |-> ""]]
    /\ UNCHANGED <<citas, nextId, tz, ov, usuarios>>

\* CreateCheck that looks the veterinarian up but does not test the role
CreateCheckAnyRole(r, user, mascota_id, propietario_id, veterinario_id, tipo_consulta, motivo, fecha_inicio, duracion_min, buffer_min) ==
    /\ Takes(r)
    /\ nextId + pendingInserts <= MaxCitas
    /\ LET vetIdToUse == IF veterinario_id \in {UNDEF, NULL} THEN NULL ELSE veterinario_id
           fecha == parseDate(fecha_inicio)
           durMin == IF duracion_min = UNDEF THEN 30 ELSE duracion_min
           bufferMin == IF buffer_min = UNDEF THEN 10 ELSE buffer_min
           refusal ==
             IF mascota_id \in {UNDEF, NULL} \/ propietario_id \in {UNDEF, NULL} \/ fecha_inicio = UNDEF
               THEN <<400, "mascota_id, propietario_id y fecha_inicio son requeridos">>
             ELSE IF mascota_id \notin Mascotas
               THEN <<400, "Mascota no existe">>
             ELSE IF owner_id(mascota_id) # propietario_id
               THEN <<400, "La mascota no pertenece al propietario indicado">>
             ELSE IF user.role = "propietario" /\ user.userId # propietario_id
               THEN <<403, "No autorizado para crear cita para otro propietario">>
             ELSE IF vetIdToUse # NULL /\ vetIdToUse \notin Usuarios
               THEN <<400, "Veterinario no encontrado">>
             ELSE IF fecha = NULL
               THEN <<400, "fecha_inicio invalida">>
             ELSE IF durMin <= 0
               THEN <<400, "duracion_min invalida">>
             ELSE IF hasOverlap(citas, vetIdToUse, toISOString(fecha), durMin, NULL, bufferMin)
               THEN <<409, "Conflicto: el veterinario tiene otra cita en ese horario (considerando buffer)">>
             ELSE <<0, "">>
       IN IF refusal[1] # 0
          THEN req' = [req EXCEPT ![r] = Fail("create", NULL, refusal[1], refusal[2])]
          ELSE req' = [req EXCEPT ![r] =
                            [pc |-> "insert", op |-> "create", id |-> NULL,
                             mascota_id |-> mascota_id, propietario_id |-> propietario_id,
                             vet |-> vetIdToUse, tipo_consulta |-> tipo_consulta,
                             motivo |-> motivo, fecha |-> fecha, durMin |-> durMin,
                             bufferMin |-> bufferMin, estado |-> ""]]
    /\ UNCHANGED <<citas, nextId, tz, ov, usuarios>>

\* create up to the first await that reads citas: the validation chain over
\* mascotas and usuarios, then the overlap query
CreateCheck(r, user, mascota_id, propietario_id, veterinario_id, tipo_consulta, motivo, fecha_inicio, duracion_min, buffer_min) ==
    /\ Takes(r)
    /\ nextId + pendingInserts <= MaxCitas
    /\ LET vetIdToUse == IF veterinario_id \in {UNDEF, NULL} THEN NULL ELSE veterinario_id
           fecha == parseDate(fecha_inicio)
           durMin == IF duracion_min = UNDEF THEN 30 ELSE duracion_min
           bufferMin == IF buffer_min = UNDEF THEN 10 ELSE buffer_min
           refusal ==
             IF mascota_id \in {UNDEF, NULL} \/ propietario_id \in {UNDEF, NULL} \/ fecha_inicio = UNDEF
               THEN <<400, "mascota_id, propietario_id y fecha_inicio son requeridos">>
             ELSE IF mascota_id \notin Mascotas
               THEN <<400, "Mascota no existe">>
             ELSE IF owner_id(mascota_id) # propietario_id
               THEN <<400, "La mascota no pertenece al propietario indicado">>
             ELSE IF user.role = "propietario" /\ user.userId # propietario_id
               THEN <<403, "No autorizado para crear cita para otro propietario">>
             ELSE IF vetIdToUse # NULL /\ vetIdToUse \notin Usuarios
               THEN <<400, "Veterinario no encontrado">>
             ELSE IF vetIdToUse # NULL /\ usuarioRole(vetIdToUse) # "admin"
               THEN <<400, "El usuario seleccionado no es un veterinario (role admin)">>
             ELSE IF fecha = NULL
               THEN <<400, "fecha_inicio invalida">>
             ELSE IF durMin <= 0
               THEN <<400, "duracion_min invalida">>
             ELSE IF hasOverlap(citas, vetIdToUse, toISOString(fecha), durMin, NULL, bufferMin)
               THEN <<409, "Conflicto: el veterinario tiene otra cita en ese horario (considerando buffer)">>
             ELSE <<0, "">>
       IN IF refusal[1] # 0
          THEN req' = [req EXCEPT ![r] = Fail("create", NULL, refusal[1], refusal[2])]
          ELSE req' = [req EXCEPT ![r] =
                            [pc |-> "insert", op |-> "create", id |-> NULL,
                             mascota_id |-> mascota_id, propietario_id |-> propietario_id,
                             vet |-> vetIdToUse, tipo_consulta |-> tipo_consulta,
                             motivo |-> motivo, fecha |-> fecha, durMin |-> durMin,
                             bufferMin |-> bufferMin, estado |-> ""]]
    /\ UNCHANGED <<citas, nextId, tz, ov, usuarios>>

\* CreateInsert with estado taken from the request instead of the literal
\* 'pendiente' of the INSERT
CreateInsertEstadoFromBody(r) ==
    /\ req[r].pc = "insert"
    /\ citas' = [i \in DOMAIN citas \cup {nextId} |->
                   IF i = nextId
                   THEN [mascota_id |-> req[r].mascota_id,
                         propietario_id |-> req[r].propietario_id,
                         veterinario_id |-> req[r].vet,
                         tipo_consulta |-> IF req[r].tipo_consulta = "" THEN "consulta general"
                                           ELSE req[r].tipo_consulta,
                         motivo |-> req[r].motivo,
                         fecha_inicio |-> formatDateToSQL(req[r].fecha),
                         duracion_min |-> req[r].durMin,
                         estado |-> req[r].estado]
                   ELSE citas[i]]
    /\ req' = [req EXCEPT ![r] = Respond("create", nextId, 201)]
    /\ nextId' = nextId + 1
    /\ UNCHANGED <<tz, ov, usuarios>>

\* the INSERT of create and its 201
CreateInsert(r) ==
    /\ req[r].pc = "insert"
    /\ citas' = [i \in DOMAIN citas \cup {nextId} |->
                   IF i = nextId
                   THEN [mascota_id |-> req[r].mascota_id,
                         propietario_id |-> req[r].propietario_id,
                         veterinario_id |-> req[r].vet,
                         tipo_consulta |-> IF req[r].tipo_consulta = "" THEN "consulta general"
                                           ELSE req[r].tipo_consulta,
                         motivo |-> req[r].motivo,
                         fecha_inicio |-> formatDateToSQL(req[r].fecha),
                         duracion_min |-> req[r].durMin,
                         estado |-> "pendiente"]
                   ELSE citas[i]]
    /\ nextId' = nextId + 1
    /\ req' = [req EXCEPT ![r] = Respond("create", nextId, 201)]
    /\ UNCHANGED <<tz, ov, usuarios>>

\* ----------------------------------------------------------------- update

\* update up to its overlap query: SELECT the row, the permission rule, the
\* validation chain over mascotas and usuarios, and the merge with the row read
UpdateRead(r, user, id, mascota_id, propietario_id, veterinario_id, tipo_consulta, motivo, fecha_inicio, duracion_min, buffer_min, estado) ==
    /\ Takes(r)
    /\ LET found == id \in DOMAIN citas
           existing == citas[id]
           mId == IF mascota_id # UNDEF THEN mascota_id ELSE existing.mascota_id
           pId == IF propietario_id # UNDEF THEN propietario_id ELSE existing.propietario_id
           vetToUse == IF veterinario_id = UNDEF THEN existing.veterinario_id
                       ELSE veterinario_id
           fecha == IF fecha_inicio # UNDEF THEN parseDate(fecha_inicio)
                    ELSE dateFromRow(existing.fecha_inicio)
           durMin == IF duracion_min # UNDEF THEN duracion_min ELSE existing.duracion_min
           bufferMin == IF buffer_min = UNDEF THEN 10 ELSE buffer_min
           refusal ==
             IF ~found
               THEN <<404, "Cita no encontrada">>
             ELSE IF user.role = "propietario" /\ user.userId # existing.propietario_id
               THEN <<403, "No autorizado para editar esta cita">>
             ELSE IF (mascota_id # UNDEF \/ propietario_id # UNDEF) /\ mId \notin Mascotas
               THEN <<400, "Mascota no existe">>
             ELSE IF (mascota_id # UNDEF \/ propietario_id # UNDEF) /\ owner_id(mId) # pId
               THEN <<400, "La mascota no pertenece al propietario indicado">>
             ELSE IF veterinario_id \notin {UNDEF, NULL} /\ veterinario_id \notin Usuarios
               THEN <<400, "Veterinario no encontrado">>
             ELSE IF veterinario_id \notin {UNDEF, NULL} /\ usuarioRole(veterinario_id) # "admin"
               THEN <<400, "El usuario seleccionado no es un veterinario (role admin)">>
             ELSE IF durMin <= 0
               THEN <<400, "duracion_min invalida">>
             ELSE <<0, "">>
       IN IF refusal[1] # 0
          THEN req' = [req EXCEPT ![r] = Fail("update", id, refusal[1], refusal[2])]
          ELSE req' = [req EXCEPT ![r] =
                            [pc |-> IF vetToUse # NULL THEN "check" ELSE "write",
                             op |-> "update", id |-> id,
                             mascota_id |-> IF mascota_id = UNDEF THEN NULL ELSE mascota_id,
                             propietario_id |-> IF propietario_id = UNDEF THEN NULL ELSE propietario_id,
                             vet |-> vetToUse, tipo_consulta |-> tipo_consulta,
                             motivo |-> motivo, fecha |-> fecha, durMin |-> durMin,
                             bufferMin |-> bufferMin, estado |-> estado]]
    /\ UNCHANGED <<citas, nextId, tz, ov, usuarios>>

\* An update that writes the row before it looks for conflicts.
UpdateCheckAfterWrite(r) ==
    /\ req[r].pc = "check"
    /\ citas' = [i \in DOMAIN citas |->
                   IF i = req[r].id
                   THEN [citas[i] EXCEPT !.veterinario_id = req[r].vet,
                                         !.fecha_inicio = formatDateToSQL(req[r].fecha),
                                         !.duracion_min = req[r].durMin]
                   ELSE citas[i]]
    /\ IF hasOverlap(citas, req[r].vet, toISOString(req[r].fecha), req[r].durMin,
                     req[r].id, req[r].bufferMin)
       THEN req' = [req EXCEPT ![r] =
                      Fail("update", req[r].id, 409,
                           "Conflicto: el veterinario tiene otra cita en ese horario (considerando buffer)")]
       ELSE req' = [req EXCEPT ![r].pc = "write"]
    /\ UNCHANGED <<nextId, tz, ov, usuarios>>

\* the overlap query of update, excluding the row under update, and its 409
UpdateCheck(r) ==
    /\ req[r].pc = "check"
    /\ IF hasOverlap(citas, req[r].vet, toISOString(req[r].fecha), req[r].durMin,
                     req[r].id, req[r].bufferMin)
       THEN req' = [req EXCEPT ![r] =
                      Fail("update", req[r].id, 409,
                           "Conflicto: el veterinario tiene otra cita en ese horario (considerando buffer)")]
       ELSE req' = [req EXCEPT ![r].pc = "write"]
    /\ UNCHANGED <<citas, nextId, tz, ov, usuarios>>

COALESCE(a, b) == IF a # NULL THEN a ELSE b
COALESCEstr(a, b) == IF a # "" THEN a ELSE b

\* What the estado column does with a value that is none of the four labels
\* is the schema's business, and the schema is not part of the repository:
\* a text column stores it, an ENUM column in strict mode refuses the UPDATE.
columnOutcomes(estado) ==
    IF estado = "" \/ estado \in allowed THEN {"stored"} ELSE {"stored", "refused"}

\* updatedRow as a full replace: every column takes the request's value
updatedRowFullReplace(q, row) ==
    [mascota_id |-> q.mascota_id,
     propietario_id |-> q.propietario_id,
     veterinario_id |-> q.vet,
     tipo_consulta |-> q.tipo_consulta,
     motivo |-> q.motivo,
     fecha_inicio |-> formatDateToSQL(q.fecha),
     duracion_min |-> q.durMin,
     estado |-> q.estado]

\* The SET clause of update's UPDATE: the row that results from `row` with
\* the parameters the handler q holds.
updatedRow(q, row) ==
    [mascota_id |-> COALESCE(q.mascota_id, row.mascota_id),
     propietario_id |-> COALESCE(q.propietario_id, row.propietario_id),
     veterinario_id |-> q.vet,
     tipo_consulta |-> COALESCEstr(q.tipo_consulta, row.tipo_consulta),
     motivo |-> COALESCEstr(q.motivo, row.motivo),
     fecha_inicio |-> formatDateToSQL(q.fecha),
     duracion_min |-> COALESCE(q.durMin, row.duracion_min),
     estado |-> COALESCEstr(q.estado, row.estado)]

\* the UPDATE of update and its 200 (its 500 when the query throws)
UpdateWrite(r) ==
    /\ req[r].pc = "write"
    /\ \E outcome \in columnOutcomes(req[r].estado) :
         IF outcome = "refused"
         THEN /\ req' = [req EXCEPT ![r] = Respond("update", req[r].id, 500)]
              /\ UNCHANGED citas
         ELSE /\ citas' = [i \in DOMAIN citas |->
                   IF i = req[r].id THEN updatedRow(req[r], citas[i]) ELSE citas[i]]
              /\ req' = [req EXCEPT ![r] = Respond("update", req[r].id, 200)]
    /\ UNCHANGED <<nextId, tz, ov, usuarios>>

\* ------------------------------------- confirm, complete, changeStatus, remove

\* the permission rule shared by confirm, complete, changeStatus and remove
authorized(user, cita) ==
    \/ user.role = "admin"
    \/ user.role = "propietario" /\ user.userId = cita.propietario_id

\* SELECT the row, 404 / 403, else go on to the write with `target`
StatusRead(r, user, op, id, target) ==
    /\ Takes(r)
    /\ IF id \notin DOMAIN citas
       THEN req' = [req EXCEPT ![r] = Respond(op, id, 404)]
       ELSE IF ~authorized(user, citas[id])
       THEN req' = [req EXCEPT ![r] = Respond(op, id, 403)]
       ELSE req' = [req EXCEPT ![r] =
                      [pc |-> IF op = "remove" THEN "delete" ELSE "status",
                       op |-> op, id |-> id, estado |-> target]]
    /\ UNCHANGED <<citas, nextId, tz, ov, usuarios>>

Confirm(r, user, id) == StatusRead(r, user, "confirm", id, "confirmada")

Complete(r, user, id) == StatusRead(r, user, "complete", id, "completada")

\* changeStatus without the check against `allowed`
ChangeStatusUnvalidated(r, user, id, estado) ==
    StatusRead(r, user, "changeStatus", id, estado)

\* changeStatus that also refuses to go back to pendiente
ChangeStatusForwardOnly(r, user, id, estado) ==
    IF estado = "" \/ estado \notin allowed \/ estado = "pendiente"
    THEN /\ Takes(r)
         /\ req' = [req EXCEPT ![r] = Respond("changeStatus", id, 400)]
         /\ UNCHANGED <<citas, nextId, tz, ov, usuarios>>
    ELSE StatusRead(r, user, "changeStatus", id, estado)

ChangeStatus(r, user, id, estado) ==
    IF estado = "" \/ estado \notin allowed
    THEN /\ Takes(r)
         /\ req' = [req EXCEPT ![r] = Respond("changeStatus", id, 400)]
         /\ UNCHANGED <<citas, nextId, tz, ov, usuarios>>
    ELSE StatusRead(r, user, "changeStatus", id, estado)

Remove(r, user, id) == StatusRead(r, user, "remove", id, "")

\* UPDATE citas SET estado = ? WHERE id = ? and the 200
StatusWrite(r) ==
    /\ req[r].pc = "status"
    /\ citas' = [i \in DOMAIN citas |->
                   IF i = req[r].id THEN [citas[i] EXCEPT !.estado = req[r].estado]
                   ELSE citas[i]]
    /\ req' = [req EXCEPT ![r] = Respond(req[r].op, req[r].id, 200)]
    /\ UNCHANGED <<nextId, tz, ov, usuarios>>

\* DELETE FROM citas WHERE id = ? and the 200
RemoveDelete(r) ==
    /\ req[r].pc = "delete"
    /\ citas' = [i \in DOMAIN citas \ {req[r].id} |-> citas[i]]
    /\ req' = [req EXCEPT ![r] = Respond("remove", req[r].id, 200)]
    /\ UNCHANGED <<nextId, tz, ov, usuarios>>

\* ------------------------------------------------------------------ slots

\* Minutes of a day; a DATETIME is day * DayMinutes + minute of the day, and a
\* `date` query parameter is the day.
DayMinutes == 24 * 60
\* DATE(fecha_inicio)
DATE(fecha_inicio) == fecha_inicio \div DayMinutes
\* a `date` that new Date() cannot parse
BadDate == -2

\* Comprueba solapamiento entre intervalos [aStart,aEnd) y [bStart,bEnd)
overlaps(aStart, aEnd, bStart, bEnd) == aStart < bEnd /\ bStart < aEnd

\* The labels written with a capital or in capitals, and their lower case.
lowerCased ==
    [t \in {"Consulta general", "Vacunacion", "Urgencia", "Cirugia", "Peluqueria",
            "Control", "Desparacitacion", "Constructor"} |->
       CASE t = "Consulta general" -> "consulta general"
         [] t = "Vacunacion" -> "vacunacion"
         [] t = "Urgencia" -> "urgencia"
         [] t = "Cirugia" -> "cirugia"
         [] t = "Peluqueria" -> "peluqueria"
         [] t = "Control" -> "control"
         [] t = "Desparacitacion" -> "desparacitacion"
         [] t = "Constructor" -> "constructor"] @@
    [t \in {"CONSULTA GENERAL", "VACUNACION", "URGENCIA", "CIRUGIA", "PELUQUERIA",
            "CONTROL", "DESPARACITACION"} |->
       CASE t = "CONSULTA GENERAL" -> "consulta general"
         [] t = "VACUNACION" -> "vacunacion"
         [] t = "URGENCIA" -> "urgencia"
         [] t = "CIRUGIA" -> "cirugia"
         [] t = "PELUQUERIA" -> "peluqueria"
         [] t = "CONTROL" -> "control"
         [] t = "DESPARACITACION" -> "desparacitacion"]

\* (t || "").toLowerCase(), for the labels a query may carry
toLowerCase(t) == IF t \in DOMAIN lowerCased THEN lowerCased[t] ELSE t

\* What map[key] gives for a key the literal does not have but
\* Object.prototype does: an object or a function, not a number.
Inherited == -3
\* the all-lower-case property names every object literal inherits
prototypeKeys == {"constructor", "__proto__"}

getDurationForTipo(t) ==
    LET low == toLowerCase(t)
    IN CASE low \in prototypeKeys -> Inherited
         [] low = "consulta general" -> 30
         [] low = "vacunacion" -> 20
         [] low = "urgencia" -> 60
         [] low = "cirugia" -> 120
         [] low = "peluqueria" -> 45
         [] low = "control" -> 20
         [] low = "desparacitacion" -> 15
         [] OTHER -> 30

\* "HH:MM" is held as <<HH, MM>>
getWindowsForTipo(t) ==
    LET low == toLowerCase(t)
    IN CASE low = "vacunacion" -> << [from |-> <<8, 0>>, to |-> <<12, 30>>],
                                    [from |-> <<14, 0>>, to |-> <<17, 0>>] >>
         [] low = "cirugia" -> << [from |-> <<8, 0>>, to |-> <<12, 0>>] >>
         [] low = "peluqueria" -> << [from |-> <<9, 0>>, to |-> <<16, 0>>] >>
         [] OTHER -> << [from |-> <<7, 0>>, to |-> <<17, 0>>] >>

parseHHMM(hhmm) == hhmm[1] * 60 + hhmm[2]
minutesToHHMM(m) == <<m \div 60, m % 60>>

CLINIC_OPEN == <<7, 0>>
CLINIC_CLOSE == <<17, 0>>
step == 15

Max(a, b) == IF a >= b THEN a ELSE b
Min(a, b) == IF a <= b THEN a ELSE b

\* citasByVet[vid]: the { start, end } of the rows of veterinarian vid
citasByVet(vid, existingCitas) ==
    { <<existingCitas[i].fecha_inicio,
        existingCitas[i].fecha_inicio + existingCitas[i].duracion_min>> :
      i \in { j \in DOMAIN existingCitas : existingCitas[j].veterinario_id = vid } }

\* the slot pushed for minute t of the day: { timeStr, startIsoLocal }
slotAt(dateStr, t) ==
    [timeStr |-> minutesToHHMM(t), startIsoLocal |-> <<dateStr>> \o minutesToHHMM(t)]

\* scanWindow that moves on by `step` after a slot it accepted
RECURSIVE scanWindowStepOnly(_, _, _, _, _)
scanWindowStepOnly(t, lastStartMin, durationMin, dateStr, vetCitas) ==
    IF t > lastStartMin THEN << >>
    ELSE IF dateStr = BadDate
    THEN scanWindowStepOnly(t + step, lastStartMin, durationMin, dateStr, vetCitas)
    ELSE LET start == dateStr * DayMinutes + t
             end == start + durationMin
             conflict == \E c \in vetCitas : overlaps(start, end, c[1], c[2])
         IN IF ~conflict
            THEN <<slotAt(dateStr, t)>> \o
                 scanWindowStepOnly(t + step, lastStartMin, durationMin, dateStr, vetCitas)
            ELSE scanWindowStepOnly(t + step, lastStartMin, durationMin, dateStr, vetCitas)

\* scanWindow that stops before the last start instead of at it
RECURSIVE scanWindowStrict(_, _, _, _, _)
scanWindowStrict(t, lastStartMin, durationMin, dateStr, vetCitas) ==
    IF t >= lastStartMin THEN << >>
    ELSE IF dateStr = BadDate
    THEN scanWindowStrict(t + step, lastStartMin, durationMin, dateStr, vetCitas)
    ELSE LET start == dateStr * DayMinutes + t
             end == start + durationMin
             conflict == \E c \in vetCitas : overlaps(start, end, c[1], c[2])
         IN IF ~conflict
            THEN <<slotAt(dateStr, t)>> \o
                 scanWindowStrict(t + durationMin, lastStartMin, durationMin, dateStr, vetCitas)
            ELSE scanWindowStrict(t + step, lastStartMin, durationMin, dateStr, vetCitas)

\* The scan that leaves the window at the first start that conflicts.
RECURSIVE scanWindowStopAtConflict(_, _, _, _, _)
scanWindowStopAtConflict(t, lastStartMin, durationMin, dateStr, vetCitas) ==
    IF t > lastStartMin THEN << >>
    ELSE IF dateStr = BadDate
    THEN scanWindowStopAtConflict(t + step, lastStartMin, durationMin, dateStr, vetCitas)
    ELSE LET start == dateStr * DayMinutes + t
             end == start + durationMin
             conflict == \E c \in vetCitas : overlaps(start, end, c[1], c[2])
         IN IF ~conflict
            THEN <<slotAt(dateStr, t)>> \o
                 scanWindowStopAtConflict(t + durationMin, lastStartMin, durationMin,
                                          dateStr, vetCitas)
            ELSE << >>

\* while (t <= lastStartMin) { ... }: the slots of one window from cursor t
RECURSIVE scanWindow(_, _, _, _, _)
scanWindow(t, lastStartMin, durationMin, dateStr, vetCitas) ==
    IF t > lastStartMin THEN << >>
    ELSE IF dateStr = BadDate
    THEN scanWindow(t + step, lastStartMin, durationMin, dateStr, vetCitas)
    ELSE LET start == dateStr * DayMinutes + t
             end == start + durationMin
             conflict == \E c \in vetCitas : overlaps(start, end, c[1], c[2])
         IN IF ~conflict
            THEN <<slotAt(dateStr, t)>> \o
                 scanWindow(t + durationMin, lastStartMin, durationMin, dateStr, vetCitas)
            ELSE scanWindow(t + step, lastStartMin, durationMin, dateStr, vetCitas)

\* windowSlots with the last start at the window's close
windowSlotsPastClose(w, durationMin, dateStr, vetCitas) ==
    LET windowFromMin == Max(parseHHMM(CLINIC_OPEN), parseHHMM(w.from))
        windowToMin == Min(parseHHMM(CLINIC_CLOSE), parseHHMM(w.to))
        lastStartMin == windowToMin
    IN IF lastStartMin < windowFromMin THEN << >>
       ELSE scanWindow(windowFromMin, lastStartMin, durationMin, dateStr, vetCitas)

\* the body of `for (const w of windows)`: the slots of window w
windowSlots(w, durationMin, dateStr, vetCitas) ==
    LET windowFromMin == Max(parseHHMM(CLINIC_OPEN), parseHHMM(w.from))
        windowToMin == Min(parseHHMM(CLINIC_CLOSE), parseHHMM(w.to))
        lastStartMin == windowToMin - durationMin
    IN IF lastStartMin < windowFromMin THEN << >>
       ELSE scanWindow(windowFromMin, lastStartMin, durationMin, dateStr, vetCitas)

\* a.startIsoLocal.localeCompare(b.startIsoLocal) < 0, field by field
isoBefore(a, b) ==
    \E k \in 1 .. 3 : a[k] < b[k] /\ \A j \in 1 .. (k - 1) : a[j] = b[j]

\* slotsByVet[vid].sort(...): insertion into a sorted sequence, stable
RECURSIVE insertSlot(_, _)
insertSlot(x, sorted) ==
    IF sorted = << >> THEN <<x>>
    ELSE IF isoBefore(x.startIsoLocal, Head(sorted).startIsoLocal)
    THEN <<x>> \o sorted
    ELSE <<Head(sorted)>> \o insertSlot(x, Tail(sorted))

RECURSIVE sortSlots(_)
sortSlots(slots) ==
    IF slots = << >> THEN << >>
    ELSE insertSlot(slots[Len(slots)], sortSlots(SubSeq(slots, 1, Len(slots) - 1)))

\* the slots of every window, in the order of the windows
RECURSIVE allWindows(_, _, _, _)
allWindows(windows, durationMin, dateStr, vetCitas) ==
    IF windows = << >> THEN << >>
    ELSE windowSlots(Head(windows), durationMin, dateStr, vetCitas)
         \o allWindows(Tail(windows), durationMin, dateStr, vetCitas)

\* generateSlotsNode(dateStr, tipoStr, vetList, existingCitas)
generateSlotsNode(dateStr, tipoStr, vetList, existingCitas) ==
    IF dateStr = NULL \/ tipoStr = ""
    THEN [slotsByVet |-> << >>, durationMin |-> 0]
    ELSE LET durationMin == getDurationForTipo(tipoStr)
             windows == getWindowsForTipo(tipoStr)
         IN [slotsByVet |->
               [vid \in vetList |->
                  sortSlots(allWindows(windows, durationMin, dateStr,
                                       citasByVet(vid, existingCitas)))],
             durationMin |-> durationMin]

\* getSlots without `AND estado != 'cancelada'`
slotsDataAllEstados(t, date, tipoQuery, vetId) ==
    LET tipo == IF tipoQuery = "" THEN "consulta general" ELSE tipoQuery
        vRows == {u \in Usuarios : usuarioRole(u) = "admin"}
        vets == IF vetId # NULL THEN {v \in vRows : v = vetId} ELSE vRows
        rowIds == {i \in DOMAIN t : date # BadDate /\ DATE(t[i].fecha_inicio) = date}
        citasRows == [i \in rowIds |-> t[i]]
    IN generateSlotsNode(date, tipo, vets, citasRows)

\* the data getSlots answers with, over table t
slotsData(t, date, tipoQuery, vetId) ==
    LET tipo == IF tipoQuery = "" THEN "consulta general" ELSE tipoQuery
        vRows == {u \in Usuarios : usuarioRole(u) = "admin"}
        vets == IF vetId # NULL THEN {v \in vRows : v = vetId} ELSE vRows
        rowIds == {i \in DOMAIN t : /\ date # BadDate
                                     /\ DATE(t[i].fecha_inicio) = date
                                     /\ t[i].estado # "cancelada"}
        citasRows == [i \in rowIds |-> t[i]]
    IN generateSlotsNode(date, tipo, vets, citasRows)

\* the response data of a request not answered yet
NoData == [slotsByVet |-> << >>, durationMin |-> 0]

\* GET /citas/slots as the handler takes it: the query is read, and the
\* handler waits for its first SELECT.
GetSlotsArrive(r, date, tipo, veterinario_id) ==
    /\ Takes(r)
    /\ req' = [req EXCEPT ![r] = [pc |-> "slots", op |-> "getSlots", date |-> date,
                                  tipo |-> tipo, veterinario_id |-> veterinario_id,
                                  code |-> 0, data |-> NoData]]
    /\ UNCHANGED <<citas, nextId, tz, ov, usuarios>>

\* A getSlots that frees the day's appointments still pending before it
\* generates the slots.
GetSlotsReleasing(r) ==
    /\ req[r].pc = "slots"
    /\ LET kept == {i \in DOMAIN citas : ~ /\ req[r].date # NULL
                                            /\ DATE(citas[i].fecha_inicio) = req[r].date
                                            /\ citas[i].estado = "pendiente"}
           t == [i \in kept |-> citas[i]]
       IN /\ citas' = t
          /\ IF req[r].date = NULL
             THEN req' = [req EXCEPT ![r] = [@ EXCEPT !.pc = "done", !.code = 400]]
             ELSE req' = [req EXCEPT ![r] =
                            [@ EXCEPT !.pc = "done", !.code = 200,
                                      !.data = slotsData(t, req[r].date, req[r].tipo,
                                                         req[r].veterinario_id)]]
    /\ UNCHANGED <<nextId, tz, ov, usuarios>>

\* GET /citas/slots, for the request handler r holds
GetSlots(r) ==
    /\ req[r].pc = "slots"
    /\ IF req[r].date = NULL
       THEN req' = [req EXCEPT ![r] = [@ EXCEPT !.pc = "done", !.code = 400]]
       ELSE req' = [req EXCEPT ![r] =
                      [@ EXCEPT !.pc = "done", !.code = 200,
                                !.data = slotsData(citas, req[r].date, req[r].tipo,
                                                   req[r].veterinario_id)]]
    /\ UNCHANGED <<citas, nextId, tz, ov, usuarios>>

\* ---------------------------------------------------------------- register

\* e-mail addresses a registration may carry
Emails == {1, 2}
\* role a body may carry; "" stands for none
RoleInputs == {"", "admin"}

\* registrations between their findByEmail and their INSERT
pendingRegisters == Cardinality({r \in Reqs : req[r].pc \in {"count", "create"}})

\* POST /auth/register up to User.findByEmail: role from the body is not read
RegisterFind(r, email, role) ==
    /\ Takes(r)
    /\ Len(usuarios) + pendingRegisters < MaxUsers
    /\ IF \E u \in DOMAIN usuarios : usuarios[u].email = email
       THEN req' = [req EXCEPT ![r] =
                      Fail("register", NULL, 409, "El email ya está registrado")]
       ELSE req' = [req EXCEPT ![r] = [pc |-> "count", op |-> "register",
                                       email |-> email, role |-> "user"]]
    /\ UNCHANGED <<citas, nextId, tz, ov, usuarios>>

\* SELECT COUNT(*) AS c FROM usuarios: admin when the table is empty; when the
\* query fails the role stays user
RegisterCount(r) ==
    /\ req[r].pc = "count"
    /\ \E failed \in BOOLEAN :
          LET totalUsers == Len(usuarios)
          IN req' = [req EXCEPT ![r].pc = "create",
                                ![r].role = IF ~failed /\ totalUsers = 0
                                            THEN "admin" ELSE @]
    /\ UNCHANGED <<citas, nextId, tz, ov, usuarios>>

\* what the INSERT of an e-mail address already stored does: the schema, and
\* with it a unique index on email, is not part of the sources
duplicateOutcomes == {"ER_DUP_ENTRY", "inserted"}

\* bcrypt.hash, then User.create: INSERT INTO usuarios and the 201
RegisterCreate(r) ==
    /\ req[r].pc = "create"
    /\ \E outcome \in duplicateOutcomes :
          IF /\ outcome = "ER_DUP_ENTRY"
             /\ \E u \in DOMAIN usuarios : usuarios[u].email = req[r].email
          THEN /\ req' = [req EXCEPT ![r] = Respond("register", NULL, 500)]
               /\ UNCHANGED usuarios
          ELSE /\ usuarios' = Append(usuarios, [email |-> req[r].email,
                                                role |-> req[r].role])
               /\ req' = [req EXCEPT ![r] = Respond("register", Len(usuarios) + 1, 201)]
    /\ UNCHANGED <<citas, nextId, tz, ov>>

\* ---------------------------------------------------------- specifications

Admin == [role |-> "admin", userId |-> 1]

\* Booking: create and update requests of an admin race for veterinarian 1;
\* appointments are cancelled through changeStatus.
Next ==
    \/ \E r \in Reqs, p \in PropietarioInputs, v \in {UNDEF, 1}, f \in BookingStarts :
          CreateCheck(r, Admin, 1, p, v, "", "", f, UNDEF, UNDEF)
    \/ \E r \in Reqs : CreateInsert(r)
    \/ \E r \in Reqs, id \in Ids, v \in {UNDEF, NULL}, f \in BookingStarts \cup {UNDEF} :
          UpdateRead(r, Admin, id, UNDEF, UNDEF, v, "", "", f, UNDEF, UNDEF, "")
    \/ \E r \in Reqs : UpdateCheck(r)
    \/ \E r \in Reqs : UpdateWrite(r)
    \/ \E r \in Reqs, id \in Ids : ChangeStatus(r, Admin, id, "cancelada")
    \/ \E r \in Reqs : StatusWrite(r)

Spec == Init /\ [][Next]_vars

\* Status: every kind of actor, every status operation and every estado a body
\* may carry, one such request at a time; an admin's remove may run beside it.
InitStatus ==
    /\ citas = << >>
    /\ nextId = 1
    /\ tz = 0
    /\ req = [r \in Reqs |-> Idle]
    /\ ov = NoCall
    /\ usuarios = usuariosTable

NextStatus ==
    \/ \E user \in Actors :
          CreateCheck(1, user, 1, owner_id(1), UNDEF, "", "", 600, UNDEF, UNDEF)
    \/ CreateInsert(1)
    \/ \E user \in Actors, id \in Ids, e \in EstadoInputs :
          UpdateRead(1, user, id, UNDEF, UNDEF, UNDEF, "", "", UNDEF, UNDEF, UNDEF, e)
    \/ UpdateWrite(1)
    \/ \E user \in Actors, id \in Ids : Confirm(1, user, id)
    \/ \E user \in Actors, id \in Ids : Complete(1, user, id)
    \/ \E user \in Actors, id \in Ids, e \in EstadoInputs :
          ChangeStatus(1, user, id, e)
    \/ \E user \in Actors, id \in Ids : Remove(1, user, id)
    \/ \E id \in Ids : Remove(2, Admin, id)
    \/ StatusWrite(1)
    \/ \E r \in Reqs : RemoveDelete(r)

SpecStatus == InitStatus /\ [][NextStatus]_vars

\* Validation: one request at a time, with every kind of pet, owner,
\* veterinarian, duration and buffer a body may carry.
DurInputs == {UNDEF, 0}
BufferInputs == {UNDEF, 0, -5}

NextValidation ==
    \/ \E user \in Actors, m \in MascotaInputs, p \in PropietarioInputs,
          v \in VetInputs \cup {UNDEF}, d \in DurInputs, b \in BufferInputs :
          CreateCheck(1, user, m, p, v, "", "", 600, d, b)
    \/ CreateInsert(1)
    \/ \E user \in Actors, id \in Ids, v \in VetInputs \cup {UNDEF, NULL},
          d \in DurInputs, b \in BufferInputs :
          UpdateRead(1, user, id, UNDEF, UNDEF, v, "", "", UNDEF, d, b, "")
    \/ UpdateCheck(1)
    \/ UpdateWrite(1)

SpecValidation == InitStatus /\ [][NextValidation]_vars

\* Partial update: an admin's updates of appointment 1, one request at a time,
\* each body carrying any subset of the fields.
PartialIds == {1}
PartialMascotas == {UNDEF, 2}
PartialPropietarios == {UNDEF, 1}
PartialVets == {UNDEF, NULL, 1}
PartialTipos == {"", "cirugia"}
PartialMotivos == {"", "control"}
PartialStarts == {UNDEF, 700}
PartialDurs == {UNDEF, 45}
PartialEstados == {"", "confirmada"}

NextPartial ==
    \/ \E v \in {UNDEF, 1} :
          CreateCheck(1, Admin, 1, 1, v, "", "", 600, UNDEF, UNDEF)
    \/ CreateInsert(1)
    \/ \E id \in PartialIds, m \in PartialMascotas, p \in PartialPropietarios,
          v \in PartialVets, t \in PartialTipos, mo \in PartialMotivos,
          f \in PartialStarts, d \in PartialDurs, e \in PartialEstados :
          UpdateRead(1, Admin, id, m, p, v, t, mo, f, d, UNDEF, e)
    \/ UpdateCheck(1)
    \/ UpdateWrite(1)

SpecPartial == Init /\ [][NextPartial]_vars

\* Pets: concurrent updates by an admin that change the pet, the owner or both.
NextPets ==
    \/ \E r \in Reqs :
          CreateCheck(r, Admin, 1, 1, UNDEF, "", "", 600, UNDEF, UNDEF)
    \/ \E r \in Reqs : CreateInsert(r)
    \/ \E r \in Reqs, id \in Ids, m \in {UNDEF, 2, 3}, p \in {UNDEF, 1, 2} :
          UpdateRead(r, Admin, id, m, p, UNDEF, "", "", UNDEF, UNDEF, UNDEF, "")
    \/ \E r \in Reqs : UpdateWrite(r)

SpecPets == InitStatus /\ [][NextPets]_vars

\* Slots: getSlots for every query over every table of up to MaxRows rows:
\* appointments of today (day 1) and one that started yesterday at 23:30.
SlotDates == {NULL, 1, BadDate}
SlotTipos == {"", "Vacunacion", "vacunacion", "cirugia"}
SlotVets == {NULL, 1, 2}
SlotRow == [mascota_id : {1}, propietario_id : {1}, veterinario_id : {NULL, 1},
            tipo_consulta : {"consulta general"}, motivo : {""},
            fecha_inicio : {DayMinutes - 30, DayMinutes + 480, DayMinutes + 850},
            duracion_min : {20, 600}, estado : {"confirmada", "cancelada"}]

InitSlots ==
    /\ \E n \in 0 .. MaxRows : citas \in [1 .. n -> SlotRow]
    /\ nextId = MaxRows + 1
    /\ tz = 0
    /\ \E q \in [pc : {"slots"}, op : {"getSlots"}, date : SlotDates, tipo : SlotTipos,
                  veterinario_id : SlotVets, code : {0}, data : {NoData}] :
          req = [r \in Reqs |-> IF r = 1 THEN q ELSE Idle]
    /\ ov = NoCall
    /\ usuarios = usuariosTable

NextSlots == GetSlots(1)

SpecSlots == InitSlots /\ [][NextSlots]_vars

\* _hasOverlap on its own: every table of up to MaxRows rows, every argument.
OverlapStarts == {600, 630, 635, 640}
OverlapDurs == {30, 5}
OverlapBuffers == {10, 5}
OverlapEstados == {"pendiente", "completada", "cancelada"}
OverlapRow == [mascota_id : {1}, propietario_id : {1}, veterinario_id : {NULL, 1},
               tipo_consulta : {"consulta general"}, motivo : {""},
               fecha_inicio : {600, 640}, duracion_min : {30}, estado : OverlapEstados]

InitOverlap ==
    /\ \E n \in 1 .. MaxRows : citas \in [1 .. n -> OverlapRow]
    /\ nextId = MaxRows + 1
    /\ tz = 0
    /\ req = [r \in Reqs |-> Idle]
    /\ ov \in [pc : {"call"}, veterinario_id : {NULL, 1, 2}, fecha_inicio : OverlapStarts,
               duracion_min : OverlapDurs, excludeId : {NULL} \cup (1 .. MaxRows),
               bufferMin : OverlapBuffers, result : {FALSE}]
    /\ usuarios = usuariosTable

\* const [rows] = await db.query(sql, params); return rows.length > 0
CallHasOverlap ==
    /\ ov.pc = "call"
    /\ ov' = [ov EXCEPT !.pc = "ret",
                        !.result = hasOverlap(citas, ov.veterinario_id, ov.fecha_inicio,
                                              ov.duracion_min, ov.excludeId, ov.bufferMin)]
    /\ UNCHANGED <<citas, nextId, tz, req, usuarios>>

NextOverlap == CallHasOverlap

SpecOverlap == InitOverlap /\ [][NextOverlap]_vars

\* The type catalog on its own: getDurationForTipo and getWindowsForTipo
\* called with every label, "" standing for an empty or missing one.
TipoLabels ==
    DOMAIN lowerCased \cup
    {"consulta general", "vacunacion", "urgencia", "cirugia", "peluqueria", "control",
     "desparacitacion", "", "vaccination", "desparasitacion", "constructor", "__proto__"}

InitCatalog ==
    /\ citas = << >>
    /\ nextId = 1
    /\ tz = 0
    /\ req = [r \in Reqs |-> Idle]
    /\ ov \in [pc : {"call"}, fn : {"getDurationForTipo", "getWindowsForTipo"},
               t : TipoLabels, result : {NULL}]
    /\ usuarios = usuariosTable

CallGetDurationForTipo ==
    /\ ov.pc = "call" /\ ov.fn = "getDurationForTipo"
    /\ ov' = [ov EXCEPT !.pc = "ret", !.result = getDurationForTipo(ov.t)]
    /\ UNCHANGED <<citas, nextId, tz, req, usuarios>>

CallGetWindowsForTipo ==
    /\ ov.pc = "call" /\ ov.fn = "getWindowsForTipo"
    /\ ov' = [ov EXCEPT !.pc = "ret", !.result = getWindowsForTipo(ov.t)]
    /\ UNCHANGED <<citas, nextId, tz, req, usuarios>>

NextCatalog == CallGetDurationForTipo \/ CallGetWindowsForTipo

SpecCatalog == InitCatalog /\ [][NextCatalog]_vars

\* Typed bookings: an admin's create requests carry a type and no
\* duracion_min.
TipoInputs == {"", "cirugia", "vacunacion", "radiografia"}

NextTyped ==
    \/ \E r \in Reqs, v \in {UNDEF, 1}, t \in TipoInputs, f \in BookingStarts :
          CreateCheck(r, Admin, 1, 1, v, t, "", f, UNDEF, UNDEF)
    \/ \E r \in Reqs : CreateInsert(r)

SpecTyped == InitStatus /\ [][NextTyped]_vars

\* One request at a time, on a server of either zone offset: an admin
\* creates, updates, confirms, completes, cancels, reopens and removes
\* appointments of veterinarian 1, every request with the default buffer.
NextSequential ==
    \/ \E v \in {UNDEF, 1}, f \in BookingStarts :
          CreateCheck(1, Admin, 1, 1, v, "", "", f, UNDEF, UNDEF)
    \/ CreateInsert(1)
    \/ \E id \in Ids, v \in {UNDEF, 1}, f \in BookingStarts \cup {UNDEF} :
          UpdateRead(1, Admin, id, UNDEF, UNDEF, v, "", "", f, UNDEF, UNDEF, "")
    \/ UpdateCheck(1)
    \/ UpdateWrite(1)
    \/ \E id \in Ids : Confirm(1, Admin, id)
    \/ \E id \in Ids : Complete(1, Admin, id)
    \/ \E id \in Ids, e \in {"cancelada", "pendiente"} : ChangeStatus(1, Admin, id, e)
    \/ \E id \in Ids : Remove(1, Admin, id)
    \/ StatusWrite(1)
    \/ RemoveDelete(1)

SpecSequential == Init /\ [][NextSequential]_vars

\* Racing updates: an admin's update requests on stored appointments, some
\* naming a start (11:40), a duration (45) or a veterinarian (1), some naming
\* none of them, in flight together.
NextRacing ==
    \/ \E r \in Reqs : CreateCheck(r, Admin, 1, 1, UNDEF, "", "", 600, UNDEF, UNDEF)
    \/ \E r \in Reqs : CreateInsert(r)
    \/ \E r \in Reqs, id \in Ids, v \in {UNDEF, 1}, f \in {UNDEF, 700}, d \in {UNDEF, 45} :
          UpdateRead(r, Admin, id, UNDEF, UNDEF, v, "", "", f, d, UNDEF, "")
    \/ \E r \in Reqs : UpdateCheck(r)
    \/ \E r \in Reqs : UpdateWrite(r)

SpecRacing == InitStatus /\ [][NextRacing]_vars

\* Slots between appointments: getSlots for day 1 over every table of up to
\* MaxRows confirmed 20-minute appointments of veterinarian 1 that start at
\* 08:00, 08:35, 08:55, 09:05 or 09:25 of that day.
GapStarts == {480, 515, 535, 545, 565}
GapTipos == {"", "vacunacion", "cirugia"}
GapRow == [mascota_id : {1}, propietario_id : {1}, veterinario_id : {1},
           tipo_consulta : {"consulta general"}, motivo : {""},
           fecha_inicio : {DayMinutes + g : g \in GapStarts},
           duracion_min : {20}, estado : {"confirmada"}]

InitGaps ==
    /\ \E n \in 0 .. MaxRows : citas \in [1 .. n -> GapRow]
    /\ nextId = MaxRows + 1
    /\ tz = 0
    /\ \E q \in [pc : {"slots"}, op : {"getSlots"}, date : {1}, tipo : GapTipos,
                  veterinario_id : {NULL, 1}, code : {0}, data : {NoData}] :
          req = [r \in Reqs |-> IF r = 1 THEN q ELSE Idle]
    /\ ov = NoCall
    /\ usuarios = usuariosTable

NextGaps == GetSlots(1)

SpecGaps == InitGaps /\ [][NextGaps]_vars

\* Registration: public register requests in flight together, from an empty
\* usuarios table.
InitRegister ==
    /\ citas = << >>
    /\ nextId = 1
    /\ tz = 0
    /\ req = [r \in Reqs |-> Idle]
    /\ ov = NoCall
    /\ usuarios = << >>

NextRegister ==
    \/ \E r \in Reqs, email \in Emails, role \in RoleInputs : RegisterFind(r, email, role)
    \/ \E r \in Reqs : RegisterCount(r)
    \/ \E r \in Reqs : RegisterCreate(r)

SpecRegister == InitRegister /\ [][NextRegister]_vars

\* Slots beside bookings: getSlots requests for day 1 interleave with an
\* admin's create, update and remove requests for that day.
DayStarts == {DayMinutes + 480, DayMinutes + 510}

NextReadOnly ==
    \/ \E r \in Reqs, f \in DayStarts :
          CreateCheck(r, Admin, 1, 1, 1, "", "", f, UNDEF, UNDEF)
    \/ \E r \in Reqs : CreateInsert(r)
    \/ \E r \in Reqs, id \in Ids, f \in DayStarts :
          UpdateRead(r, Admin, id, UNDEF, UNDEF, UNDEF, "", "", f, UNDEF, UNDEF, "")
    \/ \E r \in Reqs : UpdateCheck(r)
    \/ \E r \in Reqs : UpdateWrite(r)
    \/ \E r \in Reqs, id \in Ids : Remove(r, Admin, id)
    \/ \E r \in Reqs : RemoveDelete(r)
    \/ \E r \in Reqs, date \in {NULL, 1}, tipo \in {"", "vacunacion"} :
          GetSlotsArrive(r, date, tipo, NULL)
    \/ \E r \in Reqs : GetSlots(r)

SpecReadOnly == InitStatus /\ [][NextReadOnly]_vars

\* ------------------------------------------------------------------ claims

\* The buffered conflict rule of the design, for a candidate [start, start+dur)
\* with buffer b against a stored interval [eStart, eStart+eDur).
bufferedConflict(start, dur, b, eStart, eDur) ==
    start < eStart + eDur + b /\ eStart < start + dur + b

\* a request that got "no conflict" for a veterinarian and has its write ahead
observedNoConflict(r) ==
    /\ req[r].pc \in {"insert", "write"}
    /\ req[r].vet # NULL

\* C1: the overlap check and the write are serialized per practitioner: never
\* are two requests for the same practitioner, whose intervals conflict under
\* the buffered rule and which do not address the same appointment, both past
\* a "no conflict" verdict with their INSERT/UPDATE still ahead (each such
\* request then commits: the write is unconditional).
C1_SerializedPerPractitioner ==
    \A r, q \in Reqs :
        (/\ r # q
         /\ observedNoConflict(r)
         /\ observedNoConflict(q)
         /\ req[r].vet = req[q].vet
         /\ ~(req[r].op = "update" /\ req[q].op = "update" /\ req[r].id = req[q].id))
        => ~bufferedConflict(req[r].fecha, req[r].durMin, req[r].bufferMin,
                             req[q].fecha, req[q].durMin)

\* C2: _hasOverlap returns true iff a practitioner is given and some stored
\* NON-CANCELLED appointment of that practitioner, other than excludeId when
\* one is given, satisfies the buffered rule against the candidate.
C2_HasConflictIff ==
    ov.pc = "ret" =>
        (ov.result <=>
            /\ ov.veterinario_id # NULL
            /\ \E e \in DOMAIN citas :
                 /\ citas[e].estado # "cancelada"
                 /\ citas[e].veterinario_id = ov.veterinario_id
                 /\ (ov.excludeId # NULL => e # ov.excludeId)
                 /\ bufferedConflict(ov.fecha_inicio, ov.duracion_min, ov.bufferMin,
                                     citas[e].fecha_inicio, citas[e].duracion_min))

\* some non-cancelled row of veterinarian v other than `excl` satisfies the
\* buffered rule against the candidate the overlap query is given
liveConflict(v, start, dur, b, excl) ==
    \E e \in DOMAIN citas \ {excl} :
        /\ citas[e].estado # "cancelada"
        /\ citas[e].veterinario_id = v
        /\ bufferedConflict(start, dur, b, citas[e].fecha_inicio, citas[e].duracion_min)

\* C3: a create or update whose candidate buffered-overlaps only cancelled
\* appointments of the practitioner is not rejected with a conflict (409).
C3_CancelledNeverBlocks ==
    [][ /\ \A r \in Reqs, p \in PropietarioInputs, v \in {UNDEF, 1}, f \in BookingStarts :
             (/\ CreateCheck(r, Admin, 1, p, v, "", "", f, UNDEF, UNDEF)
              /\ ~liveConflict(v, toISOString(f), 30, 10, NULL))
             => ~(req'[r].pc = "done" /\ req'[r].code = 409)
        /\ \A r \in Reqs :
             (/\ UpdateCheck(r)
              /\ ~liveConflict(req[r].vet, toISOString(req[r].fecha), req[r].durMin,
                               req[r].bufferMin, req[r].id))
             => ~(req'[r].pc = "done" /\ req'[r].code = 409)
      ]_vars

\* C4: against a single stored non-cancelled appointment A of practitioner P,
\* a candidate for P with positive duration that starts at or after A's end
\* conflicts exactly when gap = start - A.end is less than the buffer.
C4_GapLessThanBuffer ==
    (/\ ov.pc = "ret"
     /\ DOMAIN citas = {1}
     /\ citas[1].estado # "cancelada"
     /\ citas[1].veterinario_id # NULL
     /\ ov.veterinario_id = citas[1].veterinario_id
     /\ ov.excludeId # 1
     /\ ov.duracion_min > 0
     /\ ov.fecha_inicio >= citas[1].fecha_inicio + citas[1].duracion_min)
    => (ov.result <=>
          ov.fecha_inicio - (citas[1].fecha_inicio + citas[1].duracion_min) < ov.bufferMin)

\* A = 10:00-10:30, buffer 10, a candidate at 10:35: a conflict is reported
C4_Witness ==
    /\ ov.pc = "ret"
    /\ DOMAIN citas = {1}
    /\ citas[1].estado = "pendiente"
    /\ citas[1].veterinario_id = 1 /\ ov.veterinario_id = 1
    /\ citas[1].fecha_inicio = 600 /\ citas[1].duracion_min = 30
    /\ ov.fecha_inicio = 635 /\ ov.bufferMin = 10 /\ ov.excludeId = NULL
    /\ ov.result = TRUE

\* C5: an update of appointment X is rejected with a conflict only when some
\* appointment other than X of the practitioner satisfies the buffered rule
\* against the candidate handed to the overlap query; X's own stored interval
\* never causes the rejection.
C5_UpdateNeverConflictsWithItself ==
    [][ \A r \in Reqs :
          (UpdateCheck(r) /\ req'[r].pc = "done")
          => /\ req'[r].code = 409
             /\ \E e \in DOMAIN citas \ {req[r].id} :
                  /\ citas[e].veterinario_id = req[r].vet
                  /\ bufferedConflict(toISOString(req[r].fecha), req[r].durMin,
                                      req[r].bufferMin,
                                      citas[e].fecha_inicio, citas[e].duracion_min)
      ]_vars

\* an update passed its overlap query although the row under update, taken as
\* any other row, satisfies the rule against the candidate
C5_Witness ==
    \E r \in Reqs :
        /\ req[r].pc = "write" /\ req[r].op = "update" /\ req[r].vet # NULL
        /\ req[r].id \in DOMAIN citas
        /\ citas[req[r].id].veterinario_id = req[r].vet
        /\ bufferedConflict(toISOString(req[r].fecha), req[r].durMin, req[r].bufferMin,
                            citas[req[r].id].fecha_inicio, citas[req[r].id].duracion_min)

terminal == {"completada", "cancelada"}

\* C6: completada and cancelada are terminal: a stored appointment whose
\* estado is one of them keeps that estado in every later state.
C6_TerminalStatesStay ==
    [][ \A i \in DOMAIN citas \cap DOMAIN citas' :
          citas[i].estado \in terminal => citas'[i].estado = citas[i].estado ]_vars

\* C7: the estado of every stored appointment is one of the four labels.
C7_StatusIsKnownLabel ==
    \A i \in DOMAIN citas : citas[i].estado \in allowed

\* C8: changeStatus with a target that is missing or none of the four labels
\* answers 400, has no write ahead, and leaves the table as it was: from every
\* state in which the request can arrive, that is its one outcome.
C8_UnknownTargetRejected ==
    \A user \in Actors, id \in Ids, e \in EstadoInputs \ allowed :
        Takes(1) =>
          /\ ENABLED ChangeStatus(1, user, id, e)
          /\ ~ENABLED (/\ ChangeStatus(1, user, id, e)
                       /\ ~(/\ req'[1] = [pc |-> "done", op |-> "changeStatus",
                                          id |-> id, code |-> 400]
                            /\ citas' = citas))

\* changeStatus answered 400 for an appointment that exists
C8_Witness ==
    /\ req[1].pc = "done" /\ req[1].op = "changeStatus" /\ req[1].code = 400
    /\ req[1].id \in DOMAIN citas

\* C9: for an existing appointment in pendiente or confirmada and an admin or
\* the owning propietario, changeStatus accepts each of the four labels as
\* target, whatever the current estado, and its UPDATE, when the row is still
\* there, leaves exactly the target as the stored estado and answers 200.
C9_ChangeStatusIsUnordered ==
    /\ \A user \in Actors, id \in Ids, e \in allowed :
         (/\ Takes(1)
          /\ id \in DOMAIN citas
          /\ citas[id].estado \in {"pendiente", "confirmada"}
          /\ \/ user.role = "admin"
             \/ user.role = "propietario" /\ user.userId = citas[id].propietario_id)
         => /\ ENABLED ChangeStatus(1, user, id, e)
            /\ ~ENABLED (/\ ChangeStatus(1, user, id, e)
                         /\ req'[1] # [pc |-> "status", op |-> "changeStatus",
                                       id |-> id, estado |-> e])
    /\ (/\ req[1].pc = "status"
        /\ req[1].op = "changeStatus"
        /\ req[1].id \in DOMAIN citas)
       => /\ ENABLED StatusWrite(1)
          /\ ~ENABLED (/\ StatusWrite(1)
                       /\ ~(/\ citas'[req[1].id].estado = req[1].estado
                            /\ req'[1] = [pc |-> "done", op |-> "changeStatus",
                                          id |-> req[1].id, code |-> 200]
                            /\ \A i \in DOMAIN citas \ {req[1].id} : citas'[i] = citas[i]))

\* changeStatus has accepted confirmada -> pendiente and is about to write it
C9_Witness ==
    /\ req[1].pc = "status" /\ req[1].op = "changeStatus"
    /\ req[1].estado = "pendiente"
    /\ req[1].id \in DOMAIN citas
    /\ citas[req[1].id].estado = "confirmada"

\* C10: the INSERT of a successful create adds one row, under an id no stored
\* appointment holds, with estado pendiente, and changes no other row; the 201
\* names that id.
C10_CreatedPendingWithFreshId ==
    [][ \A r \in Reqs :
          CreateInsert(r)
          => \E new \in Ids \ DOMAIN citas :
               /\ DOMAIN citas' = DOMAIN citas \cup {new}
               /\ citas'[new].estado = "pendiente"
               /\ \A i \in DOMAIN citas : citas'[i] = citas[i]
               /\ req'[r] = [pc |-> "done", op |-> "create", id |-> new, code |-> 201]
      ]_vars

\* a create has just succeeded after an earlier appointment was removed
C10_Witness ==
    /\ req[1].pc = "done" /\ req[1].op = "create" /\ req[1].code = 201
    /\ req[1].id \in DOMAIN citas
    /\ citas[req[1].id].estado = "pendiente"
    /\ Cardinality(DOMAIN citas) < req[1].id

\* ------------------------------------------------------- claims C11 - C20

C12_PositiveDurationAndBuffer ==
    \A r \in Reqs :
        req[r].pc \in {"insert", "check", "write"}
        => (req[r].durMin > 0 /\ req[r].bufferMin > 0)

\* a veterinarian id that update or create may not write
notVeterinarian(v) == v \notin {UNDEF, NULL} /\ (v \notin Usuarios \/ usuarioRole(v) # "admin")

vetRefusal(v) ==
    IF v \notin Usuarios THEN "Veterinario no encontrado"
    ELSE "El usuario seleccionado no es un veterinario (role admin)"

unspecifiedKept(row, new, m, p, v, t, mo, f, d, e) ==
    /\ (m = UNDEF => new.mascota_id = row.mascota_id)
    /\ (p = UNDEF => new.propietario_id = row.propietario_id)
    /\ (v = UNDEF => new.veterinario_id = row.veterinario_id)
    /\ (t = "" => new.tipo_consulta = row.tipo_consulta)
    /\ (mo = "" => new.motivo = row.motivo)
    /\ (f = UNDEF => new.fecha_inicio = row.fecha_inicio)
    /\ (d = UNDEF => new.duracion_min = row.duracion_min)
    /\ (e = "" => new.estado = row.estado)

\* C13: an update executed alone that is not refused writes, into the
\* addressed row, a row in which every field the body did not carry (pet,
\* owner, veterinarian, type, reason, start, duration, estado) has the value it
\* had; its UPDATE changes that row only and neither adds nor removes a row.
C13_UpdateKeepsUnspecifiedFields ==
    /\ \A id \in PartialIds, m \in PartialMascotas, p \in PartialPropietarios,
          v \in PartialVets, t \in PartialTipos, mo \in PartialMotivos,
          f \in PartialStarts, d \in PartialDurs, e \in PartialEstados :
          (Takes(1) /\ id \in DOMAIN citas)
          => ~ENABLED (/\ UpdateRead(1, Admin, id, m, p, v, t, mo, f, d, UNDEF, e)
                       /\ req'[1].pc \in {"check", "write"}
                       /\ ~unspecifiedKept(citas[id], updatedRow(req'[1], citas[id]),
                                           m, p, v, t, mo, f, d, e))
    /\ (req[1].pc = "write" /\ req[1].op = "update" /\ req[1].id \in DOMAIN citas)
       => /\ ENABLED UpdateWrite(1)
          /\ ~ENABLED (/\ UpdateWrite(1)
                       /\ ~(/\ DOMAIN citas' = DOMAIN citas
                            /\ citas'[req[1].id] = updatedRow(req[1], citas[req[1].id])
                            /\ \A i \in DOMAIN citas \ {req[1].id} : citas'[i] = citas[i]
                            /\ req'[1] = Respond("update", req[1].id, 200)))

\* an update of appointment 1 that changed only some fields has succeeded
\* beside a second appointment, in a zone that is not UTC
C13_Witness ==
    /\ tz # 0
    /\ req[1].pc = "done" /\ req[1].op = "update" /\ req[1].code = 200
    /\ DOMAIN citas = {1, 2}
    /\ citas[1].estado = "confirmada" /\ citas[1].tipo_consulta = "consulta general"
    /\ citas[1].duracion_min = 45 /\ citas[1].fecha_inicio = formatDateToSQL(600)

\* C14: the pet of every stored appointment belongs to the appointment's
\* stored owner, in every state that interleaved creates and updates reach.
C14_PetBelongsToOwner ==
    \A i \in DOMAIN citas :
        /\ citas[i].mascota_id \in Mascotas
        /\ owner_id(citas[i].mascota_id) = citas[i].propietario_id

\* getSlots has answered 200 in slot 1
slotsAnswered == req[1].pc = "done" /\ req[1].op = "getSlots" /\ req[1].code = 200

\* the minute of the day a slot starts at
slotStart(slot) == parseHHMM(slot.timeStr)

\* the windows of the type the query asked for, as getSlots resolves it
askedWindows ==
    getWindowsForTipo(IF req[1].tipo = "" THEN "consulta general" ELSE req[1].tipo)

\* C16: the slots getSlots lists for a veterinarian are in chronological
\* order and do not overlap: each slot's start + duration is at or before the
\* next slot's start, across all windows of the type.
C16_SlotsOrderedAndDisjoint ==
    slotsAnswered =>
        \A vid \in DOMAIN req[1].data.slotsByVet :
            LET slots == req[1].data.slotsByVet[vid]
            IN \A i \in 1 .. (Len(slots) - 1) :
                 slotStart(slots[i]) + req[1].data.durationMin <= slotStart(slots[i + 1])

\* vaccination slots around an appointment at 08:00, in both windows
C16_Witness ==
    /\ slotsAnswered /\ req[1].tipo = "Vacunacion" /\ req[1].date = 1
    /\ \E i \in DOMAIN citas :
          /\ citas[i].veterinario_id = 1 /\ citas[i].estado = "confirmada"
          /\ citas[i].fecha_inicio = DayMinutes + 480 /\ citas[i].duracion_min = 20
    /\ LET slots == req[1].data.slotsByVet[1]
       IN /\ Len(slots) > 2
          /\ slots[1].timeStr = <<8, 30>>
          /\ \E i \in 1 .. Len(slots) : slots[i].timeStr = <<14, 0>>

\* C17: every slot lies inside one window of the type clipped to clinic
\* hours 07:00-17:00: it starts at or after the window's start and its start +
\* duration is at or before the window's close.
C17_SlotsInsideWindow ==
    slotsAnswered =>
        \A vid \in DOMAIN req[1].data.slotsByVet :
            LET slots == req[1].data.slotsByVet[vid]
            IN \A i \in 1 .. Len(slots) :
                 \E k \in 1 .. Len(askedWindows) :
                    /\ Max(parseHHMM(CLINIC_OPEN), parseHHMM(askedWindows[k].from))
                         <= slotStart(slots[i])
                    /\ slotStart(slots[i]) + req[1].data.durationMin
                         <= Min(parseHHMM(CLINIC_CLOSE), parseHHMM(askedWindows[k].to))

\* a surgery slot that ends exactly at the window's close, 12:00
C17_Witness ==
    /\ slotsAnswered /\ req[1].tipo = "cirugia" /\ req[1].date = 1
    /\ 1 \in DOMAIN req[1].data.slotsByVet
    /\ LET slots == req[1].data.slotsByVet[1]
       IN Len(slots) > 0 /\ slots[Len(slots)].timeStr = <<10, 0>>

\* C18: no slot getSlots lists for a veterinarian overlaps (half-open,
\* unbuffered) a stored appointment of that veterinarian that is not cancelled,
\* whatever day the appointment started on.
C18_SlotsAvoidAppointments ==
    slotsAnswered =>
        \A vid \in DOMAIN req[1].data.slotsByVet :
            LET slots == req[1].data.slotsByVet[vid]
            IN \A i \in 1 .. Len(slots), c \in DOMAIN citas :
                 (citas[c].veterinario_id = vid /\ citas[c].estado # "cancelada")
                 => ~overlaps(req[1].date * DayMinutes + slotStart(slots[i]),
                              req[1].date * DayMinutes + slotStart(slots[i])
                                + req[1].data.durationMin,
                              citas[c].fecha_inicio,
                              citas[c].fecha_inicio + citas[c].duracion_min)

\* the table without its cancelled appointments
withoutCancelled == [i \in {j \in DOMAIN citas : citas[j].estado # "cancelada"} |-> citas[i]]

\* C19: the data getSlots answers with is the data it answers with over the
\* table from which every cancelled appointment has been taken away.
C19_CancelledNeverBlockSlots ==
    slotsAnswered =>
        req[1].data = slotsData(withoutCancelled, req[1].date, req[1].tipo,
                                req[1].veterinario_id)

\* 08:00 is offered although a cancelled appointment of the veterinarian
\* sits on it
C19_Witness ==
    /\ slotsAnswered /\ req[1].tipo = "vacunacion" /\ req[1].date = 1
    /\ \E i \in DOMAIN citas :
          /\ citas[i].veterinario_id = 1 /\ citas[i].estado = "cancelada"
          /\ citas[i].fecha_inicio = DayMinutes + 480
    /\ 1 \in DOMAIN req[1].data.slotsByVet
    /\ Len(req[1].data.slotsByVet[1]) > 0
    /\ req[1].data.slotsByVet[1][1].timeStr = <<8, 0>>

\* the starts windowStart + k * duration that fit window w
expectedStarts(w, durationMin) ==
    LET from == Max(parseHHMM(CLINIC_OPEN), parseHHMM(w.from))
        to == Min(parseHHMM(CLINIC_CLOSE), parseHHMM(w.to))
        n == IF to - durationMin < from THEN 0
             ELSE ((to - durationMin - from) \div durationMin) + 1
    IN [k \in 1 .. n |-> from + (k - 1) * durationMin]

\* C20: for a veterinarian with no stored appointment, the starts listed are,
\* window after window, exactly windowStart + k * duration for every k >= 0
\* with windowStart + k * duration <= windowEnd - duration; for vacunacion
\* (20 minutes) 08:00, 08:20, ... 12:00 and 14:00, 14:20, ... 16:40.
C20_EmptyDaySlotsEveryDuration ==
    (slotsAnswered /\ req[1].date # BadDate)
    => \A vid \in DOMAIN req[1].data.slotsByVet :
         (\A c \in DOMAIN citas : citas[c].veterinario_id # vid)
         => LET slots == req[1].data.slotsByVet[vid]
                starts == [i \in 1 .. Len(slots) |-> slotStart(slots[i])]
                d == req[1].data.durationMin
            IN /\ starts = IF Len(askedWindows) = 1
                           THEN expectedStarts(askedWindows[1], d)
                           ELSE expectedStarts(askedWindows[1], d)
                                \o expectedStarts(askedWindows[2], d)
               /\ toLowerCase(req[1].tipo) = "vacunacion"
                  => /\ d = 20 /\ Len(starts) = 22
                     /\ starts[1] = 480 /\ starts[2] = 500 /\ starts[13] = 720
                     /\ starts[14] = 840 /\ starts[15] = 860 /\ starts[22] = 1000

\* vaccination slots for veterinarian 1, who has no appointment, while the
\* table holds an appointment with no veterinarian
C20_Witness ==
    /\ slotsAnswered /\ req[1].tipo = "vacunacion" /\ req[1].date = 1
    /\ citas # << >>
    /\ \A c \in DOMAIN citas : citas[c].veterinario_id # 1
    /\ 1 \in DOMAIN req[1].data.slotsByVet
    /\ Len(req[1].data.slotsByVet[1]) = 22
    /\ req[1].data.slotsByVet[1][2].timeStr = <<8, 20>>


\* C21: a getSlots request changes no stored record. Every step a getSlots
\* handler takes, its arrival and its answer, alone or between the steps of
\* other requests, leaves the citas table, its counter and the usuarios table
\* as they were (mascotas and propietarios are never written by any handler).
C21_GetSlotsReadOnly ==
    [][\A r \in Reqs :
          (req'[r] # req[r] /\ (req[r].pc = "slots" \/ req'[r].pc = "slots"))
             => citas' = citas /\ nextId' = nextId /\ usuarios' = usuarios]_vars

\* a getSlots request answered with slots while a create that passed its
\* checks waits to insert beside a stored appointment
C21_Witness ==
    \E r \in Reqs, q \in Reqs :
        /\ req[r].pc = "done" /\ req[r].op = "getSlots" /\ req[r].code = 200
        /\ req[q].pc = "insert"
        /\ citas # << >>


\* the labels of one known type, in the three spellings
spellings(low, cap, up) == {low, cap, up}

\* C22: getDurationForTipo matches the label whatever its case and returns
\* the catalog duration of each known type (consulta general 30, vacunacion
\* 20, urgencia 60, cirugia 120, peluqueria 45, control 20, desparacitacion
\* 15) and 30 for every other label, the empty or missing one included; the
\* result is always a positive number of minutes.
C22_CatalogDuration ==
    (ov.pc = "ret" /\ ov.fn = "getDurationForTipo") =>
       /\ ov.result \in Nat \ {0}
       /\ ov.result =
            CASE ov.t \in spellings("consulta general", "Consulta general",
                                    "CONSULTA GENERAL") -> 30
              [] ov.t \in spellings("vacunacion", "Vacunacion", "VACUNACION") -> 20
              [] ov.t \in spellings("urgencia", "Urgencia", "URGENCIA") -> 60
              [] ov.t \in spellings("cirugia", "Cirugia", "CIRUGIA") -> 120
              [] ov.t \in spellings("peluqueria", "Peluqueria", "PELUQUERIA") -> 45
              [] ov.t \in spellings("control", "Control", "CONTROL") -> 20
              [] ov.t \in spellings("desparacitacion", "Desparacitacion",
                                    "DESPARACITACION") -> 15
              [] OTHER -> 30


\* C23: a create request that gives no duracion_min persists the catalog
\* duration of its type (120 for cirugia, 20 for vacunacion), and 30 only when
\* the type is unknown or not given. No create of SpecTyped gives a duration.
C23_DefaultDurationFromType ==
    \A i \in DOMAIN citas :
        citas[i].duracion_min = getDurationForTipo(citas[i].tipo_consulta)


\* a create or update answered with a validation, not-found, authorization
\* or conflict outcome
refused(q) ==
    q.pc = "done" /\ q.op \in {"create", "update"} /\ q.code \in {400, 403, 404, 409}

\* C24: a create or update that ends refused leaves the appointment store as
\* it was, and issues no write later. The step that answers the refusal
\* changes neither the table nor its counter; a step that changes them is
\* the last step of a request answered 200 or 201; and once a request is
\* refused, a later change of the table is never a step of its handler.
C24_RefusedRequestWritesNothing ==
    [][\A r \in Reqs :
          /\ (req'[r] # req[r] /\ refused(req'[r]))
                => citas' = citas /\ nextId' = nextId
          /\ (req'[r] # req[r] /\ (citas' # citas \/ nextId' # nextId))
                => req'[r].pc = "done" /\ req'[r].code \in {200, 201}
          /\ (refused(req[r]) /\ (citas' # citas \/ nextId' # nextId))
                => req'[r] = req[r]]_vars

\* an update refused for a conflict (409) after it passed every other check,
\* with the appointment it addressed still stored
C24_Witness ==
    /\ refused(req[1]) /\ req[1].op = "update" /\ req[1].code = 409
    /\ req[1].id \in DOMAIN citas


\* C26: the start that create and update hand to the overlap check is, in the
\* clock of the stored starts it is compared with, the start they persist,
\* whatever the server's zone offset. For a request with a veterinarian that
\* is at its check or past it: the text given to _hasOverlap names the same
\* wall-clock minute as the text written to fecha_inicio.
C26_CheckedStartIsStoredStart ==
    \A r \in Reqs :
        (req[r].pc \in {"check", "insert", "write"} /\ req[r].vet # NULL)
           => toISOString(req[r].fecha) = formatDateToSQL(req[r].fecha)


\* the buffer every request of SpecSequential uses: none is given, so 10
defaultBuffer == 10

\* C25: when the requests run one at a time and all use the same buffer b, no
\* two distinct stored non-cancelled appointments of one practitioner satisfy
\* the buffered conflict rule with b.
C25_NoStoredConflict ==
    \A i, j \in DOMAIN citas :
        (/\ i # j
         /\ citas[i].estado # "cancelada" /\ citas[j].estado # "cancelada"
         /\ citas[i].veterinario_id # NULL
         /\ citas[i].veterinario_id = citas[j].veterinario_id)
           => ~bufferedConflict(citas[i].fecha_inicio, citas[i].duracion_min, defaultBuffer,
                                citas[j].fecha_inicio, citas[j].duracion_min)


\* C27: under any interleaving of update requests on one appointment, an
\* update that names no start, duration or veterinarian never overwrites those
\* fields with what it read before another update committed. In SpecRacing
\* every update that names a start names 11:40, every one that names a
\* duration names 45 and every one that names a veterinarian names 1: so a
\* field that holds the named value is never taken back to an older one.
C27_NoStaleOverwrite ==
    [][\A i \in DOMAIN citas \cap DOMAIN citas' :
          /\ citas[i].fecha_inicio = 700 => citas'[i].fecha_inicio = 700
          /\ citas[i].duracion_min = 45 => citas'[i].duracion_min = 45
          /\ citas[i].veterinario_id = 1 => citas'[i].veterinario_id = 1]_vars


\* an actor who is neither an admin nor the owner of the appointment
outsider(user, cita) ==
    /\ user.role # "admin"
    /\ ~(user.role = "propietario" /\ user.userId = cita.propietario_id)

\* the request in slot 1 was answered "not authorized" and nothing was written
notAuthorized ==
    req'[1].pc = "done" /\ req'[1].code = 403 /\ citas' = citas

\* C28: an authenticated actor who is neither an admin nor the owner of the
\* appointment never changes or deletes it: every update, confirm, complete,
\* changeStatus and remove of such an actor, one with role user included, is
\* answered "not authorized" with the appointment unchanged.
C28_OutsiderNeverChanges ==
    \A user \in Actors, id \in DOMAIN citas :
        (Takes(1) /\ outsider(user, citas[id])) =>
           /\ \A e \in EstadoInputs :
                 ~ENABLED (/\ UpdateRead(1, user, id, UNDEF, UNDEF, UNDEF, "", "", UNDEF,
                                         UNDEF, UNDEF, e)
                          /\ ~notAuthorized)
           /\ ~ENABLED (Confirm(1, user, id) /\ ~notAuthorized)
           /\ ~ENABLED (Complete(1, user, id) /\ ~notAuthorized)
           /\ \A e \in allowed : ~ENABLED (ChangeStatus(1, user, id, e) /\ ~notAuthorized)
           /\ ~ENABLED (Remove(1, user, id) /\ ~notAuthorized)


\* the appointments generateSlotsNode is handed for veterinarian vid, as
\* <<start, end>> in minutes of the day asked for
handedIntervals(vid) ==
    { <<citas[i].fecha_inicio - req[1].date * DayMinutes,
        citas[i].fecha_inicio - req[1].date * DayMinutes + citas[i].duracion_min>> :
      i \in {j \in DOMAIN citas : /\ citas[j].veterinario_id = vid
                                  /\ DATE(citas[j].fecha_inicio) = req[1].date
                                  /\ citas[j].estado # "cancelada"} }

\* [a, b) lies in the window [from, to), is at least duration + step long
\* and overlaps no appointment of vid
freeInterval(vid, a, b, from, to) ==
    /\ from <= a /\ b <= to
    /\ b - a >= req[1].data.durationMin + step
    /\ \A c \in handedIntervals(vid) : ~overlaps(a, b, c[1], c[2])

\* some slot listed for vid lies entirely inside [a, b)
slotInside(vid, a, b) ==
    \E k \in 1 .. Len(req[1].data.slotsByVet[vid]) :
        LET s == slotStart(req[1].data.slotsByVet[vid][k])
        IN a <= s /\ s + req[1].data.durationMin <= b

\* C29 as stated: for every practitioner and window, every interval inside
\* the clipped window that is at least duration + 15 minutes long and
\* overlaps no appointment of the practitioner has a listed slot entirely
\* inside it.
C29_EveryFreeIntervalHasSlot ==
    slotsAnswered =>
        \A vid \in DOMAIN req[1].data.slotsByVet :
            \A n \in 1 .. Len(askedWindows) :
                LET from == Max(parseHHMM(CLINIC_OPEN), parseHHMM(askedWindows[n].from))
                    to == Min(parseHHMM(CLINIC_CLOSE), parseHHMM(askedWindows[n].to))
                IN \A a \in from .. to, b \in from .. to :
                       freeInterval(vid, a, b, from, to) => slotInside(vid, a, b)

\* C29, for the free gaps: for every practitioner and window, every interval
\* of the clipped window that runs from the window's start or the end of an
\* appointment to the window's end or the start of an appointment, is at
\* least duration + 15 minutes long and overlaps no appointment of the
\* practitioner has a listed slot entirely inside it.
C29_EveryFreeGapHasSlot ==
    slotsAnswered =>
        \A vid \in DOMAIN req[1].data.slotsByVet :
            \A n \in 1 .. Len(askedWindows) :
                LET from == Max(parseHHMM(CLINIC_OPEN), parseHHMM(askedWindows[n].from))
                    to == Min(parseHHMM(CLINIC_CLOSE), parseHHMM(askedWindows[n].to))
                IN \A a \in {from} \cup {c[2] : c \in handedIntervals(vid)},
                      b \in {to} \cup {c[1] : c \in handedIntervals(vid)} :
                       freeInterval(vid, a, b, from, to) => slotInside(vid, a, b)

\* appointments 08:00-08:20 and 09:05-09:25 leave a gap of exactly 30 + 15
\* minutes for the default type, and 08:30 is listed inside it
C29_Witness ==
    /\ slotsAnswered /\ req[1].tipo = "" /\ req[1].veterinario_id = 1
    /\ {citas[i].fecha_inicio : i \in DOMAIN citas} = {DayMinutes + 480, DayMinutes + 545}
    /\ freeInterval(1, 500, 545, 420, 1020)
    /\ \E k \in 1 .. Len(req[1].data.slotsByVet[1]) :
          slotStart(req[1].data.slotsByVet[1][k]) = 510


\* C30: public registration stores role admin only for the first user: under
\* any interleaving of register requests, a registration stores role admin
\* only if no user existed when it was stored, every other one stores role
\* user, and so at most one user becomes admin.
C30_AdminOnlyForFirstUser ==
    [][Len(usuarios') > Len(usuarios) =>
          LET stored == usuarios'[Len(usuarios')]
          IN /\ stored.role \in {"admin", "user"}
             /\ stored.role = "admin" => Len(usuarios) = 0
             /\ Cardinality({u \in DOMAIN usuarios' : usuarios'[u].role = "admin"}) <= 1]_vars

====
